---------------------------- MODULE Spec2Model ----------------------------
(***************************************************************************)
(* Voice reader of the AI Book Summarizer (class VoiceReader and the page  *)
(* level voice controls).  The controller drives the browser's speech      *)
(* synthesis engine: speak / pause / resume / stop on one side, the        *)
(* utterance callbacks onstart / onend / onerror / onpause / onresume on   *)
(* the other.  Text is a sequence of one-character strings; a voice name   *)
(* or language tag is a sequence of words.                                 *)
(***************************************************************************)
EXTENDS Integers, Sequences, FiniteSets, TLC

VARIABLES
    isReading,      \* VoiceReader.isReading
    isPaused,       \* VoiceReader.isPaused
    ui,             \* state last passed to updateUI (play/pause/stop buttons)
    currentText,    \* VoiceReader.currentText
    utterance,      \* id of VoiceReader.utterance, 0 = null
    engQueue,       \* utterances the engine holds, head first
    engBegun,       \* the head utterance has begun being spoken
    engPaused,      \* speechSynthesis.paused
    engine,         \* which of the behaviours the API permits this engine has
    inflight,       \* utterance events fired by the engine, not yet dispatched
    last,           \* the operation executed last and what it did
    voices,         \* VoiceReader.voices
    selectedVoice,  \* VoiceReader.selectedVoice
    store,          \* localStorage
    catalog,        \* what speechSynthesis.getVoices() returns now
    settings,       \* VoiceReader.settings: rate, pitch, volume in tenths
    page            \* the document: rendered texts and pending timers

ctlVars   == <<isReading, isPaused, ui, currentText, utterance>>
engVars   == <<engQueue, engBegun, engPaused, engine, inflight>>
voiceVars == <<voices, selectedVoice, store, catalog, settings, page>>
vars      == <<isReading, isPaused, ui, currentText, utterance, engQueue,
               engBegun, engPaused, engine, inflight, last, voices,
               selectedVoice, store, catalog, settings, page>>

(***************************************************************************)
(* Bounds                                                                  *)
(***************************************************************************)
MaxStarts   == 2    \* utterances created in one behaviour
MaxInFlight == 2    \* events fired and not yet dispatched
MaxVoices   == 2    \* length of a reported voice list
MaxPieces   == 3    \* pieces a text handed to the sanitizer is built from
MaxTimers   == 2    \* auto-read timers set and not yet fired
MaxChapters == 2    \* chapter elements on the page
MaxAttempts == 4    \* calls of getVoices() counted before the count wraps

(***************************************************************************)
(* Characters                                                              *)
(***************************************************************************)
WhiteSpace  == {" ", "\t", "\n"}
WordChars   == {"a", "b", "h", "i", "l", "t", "g", "m", "p", "n", "s", "q",
                "u", "o", "1", "2", "3", "4", "9", "_"}
\* two letters, the danda, and the words of the announcements of
\* readAllChapters and of the test sentence of testVoice, each word (letters
\* of this block only) as one symbol
Devanagari  == {"U+0928", "U+092E", "U+0964",
                "U+091A U+0948 U+092A U+094D U+091F U+0930",
                "U+0905 U+0917 U+0932 U+093E",
                "U+0928 U+092E U+0938 U+094D U+0924 U+0947", "U+092F U+0939",
                "U+090F U+0915", "U+091F U+0947 U+0938 U+094D U+091F",
                "U+0939 U+0948", "U+0906 U+092A U+0915 U+0940",
                "U+0906 U+0935 U+093E U+091C U+093C",
                "U+0915 U+0948 U+0938 U+0940", "U+0932 U+0917",
                "U+0930 U+0939 U+0940"}
Punctuation == {".", ",", "!", "?", ";", ":", "(", ")", "-", "\"", "'"}

RECURSIVE ReplaceAll(_, _, _)
ReplaceAll(s, pat, rep) ==
    IF Len(s) < Len(pat) THEN s
    ELSE IF SubSeq(s, 1, Len(pat)) = pat
         THEN rep \o ReplaceAll(SubSeq(s, Len(pat) + 1, Len(s)), pat, rep)
         ELSE <<s[1]>> \o ReplaceAll(Tail(s), pat, rep)

\* /<[^>]*>/g : from a "<" to the first ">" after it
RECURSIVE RemoveTags(_)
RemoveTags(s) ==
    IF s = <<>> THEN <<>>
    ELSE IF s[1] = "<" /\ \E j \in 2..Len(s) : s[j] = ">"
         THEN LET j == CHOOSE k \in 2..Len(s) :
                           s[k] = ">" /\ \A m \in 2..(k-1) : s[m] # ">"
              IN  RemoveTags(SubSeq(s, j + 1, Len(s)))
         ELSE <<s[1]>> \o RemoveTags(Tail(s))

\* /\s+/g -> ' '
RECURSIVE CollapseWhitespace(_)
CollapseWhitespace(s) ==
    IF s = <<>> THEN <<>>
    ELSE IF s[1] \in WhiteSpace
         THEN IF Len(s) > 1 /\ s[2] \in WhiteSpace
              THEN CollapseWhitespace(Tail(s))
              ELSE <<" ">> \o CollapseWhitespace(Tail(s))
         ELSE <<s[1]>> \o CollapseWhitespace(Tail(s))

\* /[^\w\s\u0900-\u097F.,!?;:()\-""'']/g -> ''
KeepChar(c) == c \in WordChars \cup WhiteSpace \cup Devanagari \cup Punctuation

\* the last replace left out
KeepEverything(s) == s

KeepAllowed(s) == SelectSeq(s, KeepChar)

RECURSIVE TrimLeft(_)
TrimLeft(s) ==
    IF s # <<>> /\ s[1] \in WhiteSpace THEN TrimLeft(Tail(s)) ELSE s

RECURSIVE TrimRight(_)
TrimRight(s) ==
    IF s # <<>> /\ s[Len(s)] \in WhiteSpace
    THEN TrimRight(SubSeq(s, 1, Len(s) - 1)) ELSE s

Trim(s) == TrimRight(TrimLeft(s))

cleanText(text) ==
    LET t1 == RemoveTags(text)
        t2 == ReplaceAll(t1, <<"&", "n", "b", "s", "p", ";">>, <<" ">>)
        t3 == ReplaceAll(t2, <<"&", "a", "m", "p", ";">>, <<"&">>)
        t4 == ReplaceAll(t3, <<"&", "l", "t", ";">>, <<"<">>)
        t5 == ReplaceAll(t4, <<"&", "g", "t", ";">>, <<">">>)
        t6 == ReplaceAll(t5, <<"&", "q", "u", "o", "t", ";">>, <<"\"">>)
        t7 == ReplaceAll(t6, <<"&", "#", "3", "9", ";">>, <<"'">>)
        t8 == CollapseWhitespace(t7)
        t9 == KeepAllowed(t8)
    IN  Trim(t9)

isHindiText(text) == \E i \in 1..Len(text) : text[i] \in Devanagari

(***************************************************************************)
(* Preferences: VoiceReader.settings and the strings kept in localStorage.  *)
(* Rate, pitch and volume are counted in tenths; a stored item is <<>> when *)
(* absent and <<s>> for the string s.                                       *)
(***************************************************************************)
Digits == <<"0", "1", "2", "3", "4", "5", "6", "7", "8", "9">>

IsDigit(c) == \E d \in 1..10 : Digits[d] = c

DigitVal(c) == (CHOOSE d \in 1..10 : Digits[d] = c) - 1

\* what parseFloat gives for a string that does not start with a number
NaN == -1

RECURSIVE DigitsPrefix(_)
DigitsPrefix(s) ==
    IF s # <<>> /\ IsDigit(s[1]) THEN <<s[1]>> \o DigitsPrefix(Tail(s))
    ELSE <<>>

RECURSIVE IntVal(_)
IntVal(ds) ==
    IF ds = <<>> THEN 0
    ELSE IntVal(SubSeq(ds, 1, Len(ds) - 1)) * 10 + DigitVal(ds[Len(ds)])

\* parseFloat on unsigned decimal strings, the value in tenths: leading
\* white space is skipped, the longest numeric prefix is read, the rest is
\* ignored; the strings used carry at most one fractional digit
parseFloat(s) ==
    LET t    == TrimLeft(s)
        ip   == DigitsPrefix(t)
        rest == SubSeq(t, Len(ip) + 1, Len(t))
        fp   == IF rest # <<>> /\ rest[1] = "." THEN DigitsPrefix(Tail(rest))
                ELSE <<>>
    IN  IF ip = <<>> /\ fp = <<>> THEN NaN
        ELSE IntVal(ip) * 10 + (IF fp = <<>> THEN 0 ELSE DigitVal(fp[1]))

RECURSIVE IntStr(_)
IntStr(k) ==
    IF k < 10 THEN <<Digits[k + 1]>>
    ELSE IntStr(k \div 10) \o <<Digits[(k % 10) + 1]>>

\* Number.prototype.toString of a value in tenths
numberToString(n) ==
    IF n = NaN THEN <<"N", "a", "N">>
    ELSE IntStr(n \div 10)
         \o (IF n % 10 = 0 THEN <<>> ELSE <<".", Digits[(n % 10) + 1]>>)

\* the test as it would be on the number: "0" counts as missing
TruthyAsNumber(item) == item # <<>> /\ item[1] # <<>> /\ item[1] # <<"0">>

\* `if (saved)`: the item exists and is not the empty string
Truthy(item) == item # <<>> /\ item[1] # <<>>

DefaultSettings == [rate |-> 8, pitch |-> 10, volume |-> 9]

\* the settings the constructor ends with: defaults, then loadSavedSettings
loadSavedSettings(st) ==
    [rate   |-> IF Truthy(st.voiceRate) THEN parseFloat(st.voiceRate[1])
                ELSE DefaultSettings.rate,
     pitch  |-> IF Truthy(st.voicePitch) THEN parseFloat(st.voicePitch[1])
                ELSE DefaultSettings.pitch,
     volume |-> IF Truthy(st.voiceVolume) THEN parseFloat(st.voiceVolume[1])
                ELSE DefaultSettings.volume]

saveSettings(st, se) ==
    [st EXCEPT !.voiceRate = <<numberToString(se.rate)>>,
               !.voicePitch = <<numberToString(se.pitch)>>,
               !.voiceVolume = <<numberToString(se.volume)>>]

EmptyStore ==
    [selectedVoiceIndex |-> <<>>, voiceRate |-> <<>>, voicePitch |-> <<>>,
     voiceVolume |-> <<>>, autoReadSummary |-> <<>>]

\* the document right after load: the global voiceReader is set and its
\* constructor has read the voice list once and set its two timers, nothing
\* is rendered, no other timer is pending
FreshPage ==
    [reader |-> TRUE, summary |-> <<>>, chapters |-> <<>>, autoTimers |-> 0,
     initTimers |-> 2, settingsTimers |-> 0, enumerations |-> 1,
     restoreTimers |-> <<>>]

(***************************************************************************)
(* The speech engine (window.speechSynthesis)                              *)
(***************************************************************************)
\* The API leaves two things to the engine: whether `speaking` already holds
\* for an utterance that is queued but has not begun, and whether cancel()
\* also leaves the paused state.
EngineKinds == [eagerSpeaking : BOOLEAN, cancelResumes : BOOLEAN]

ErrorKinds == {"network", "not-allowed", "language-not-supported",
               "synthesis-failed"}

Event(kind, id, err) == [kind |-> kind, id |-> id, err |-> err]

\* speechSynthesis.speaking
synthSpeaking ==
    engQueue # <<>> /\ (engBegun \/ engine.eagerSpeaking)

\* speechSynthesis.cancel(): the queue is emptied, every removed utterance
\* gets its error event ("interrupted" if it had begun, else "canceled")
CancelEvents ==
    [i \in 1..Len(engQueue) |->
        Event("error", engQueue[i].id,
              IF i = 1 /\ engBegun THEN "interrupted" ELSE "canceled")]

PausedAfterCancel == IF engine.cancelResumes THEN FALSE ELSE engPaused

\* speechSynthesis.pause() / resume(): the event goes to the utterance
\* being spoken, if there is one
PauseEvents(kind) ==
    IF engQueue # <<>> /\ engBegun
    THEN <<Event(kind, engQueue[1].id, "none")>> ELSE <<>>

(***************************************************************************)
(* History of the last controller operation                                *)
(***************************************************************************)
Pre == [isReading |-> isReading, isPaused |-> isPaused, ui |-> ui,
        live |-> Len(engQueue)]

Did(op, text, ev, calls, notes) ==
    [op |-> op, text |-> text, ev |-> ev, pre |-> Pre,
     calls |-> calls, notes |-> notes]

NoEvent == Event("none", 0, "none")

(***************************************************************************)
(* Texts handed to speak                                                   *)
(***************************************************************************)
Texts == { <<>>,
           <<" ", " ", " ">>,
           <<"<", "b", ">", "<", "/", "b", ">">>,
           <<"<", "b", ">", "h", "i", "<", "/", "b", ">">>,
           <<"U+0928", "U+092E">> }

(***************************************************************************)
(* VoiceReader.stop as it runs inside an operation: the state it leaves    *)
(***************************************************************************)
stopActs == synthSpeaking \/ engPaused

AfterStop ==
    IF stopActs
    THEN [queue |-> <<>>, begun |-> FALSE, paused |-> PausedAfterCancel,
          inflight |-> inflight \o CancelEvents,
          isReading |-> FALSE, isPaused |-> FALSE, ui |-> "stopped",
          calls |-> <<"cancel">>]
    ELSE [queue |-> engQueue, begun |-> engBegun, paused |-> engPaused,
          inflight |-> inflight,
          isReading |-> isReading, isPaused |-> isPaused, ui |-> ui,
          calls |-> <<>>]

(***************************************************************************)
(* VoiceReader operations                                                  *)
(***************************************************************************)
\* speak(text): the guard looks at the raw text, cleanText runs after stop()
speakRejects(text) == text = <<>> \/ Trim(text) = <<>>

\* this.selectedVoice is null
NoVoice == [name |-> <<>>, lang |-> <<>>]

\* the language tag taken from the voice alone
utteranceLangOfVoice(sel, cleaned) ==
    IF sel # NoVoice THEN sel.lang ELSE <<"en-US">>

\* utterance.lang: the selected voice's, else by the script of the text
utteranceLang(sel, cleaned) ==
    IF sel # NoVoice THEN sel.lang
    ELSE IF isHindiText(cleaned) THEN <<"hi-IN">> ELSE <<"en-US">>

\* the body of speak(text), run on behalf of operation op, leaving page pg
\* and with sel as this.selectedVoice
speakAs(op, text, pg, sel) ==
    IF speakRejects(text)
    THEN /\ last' = Did(op, text, NoEvent, <<>>, <<"NoText">>)
         /\ page' = pg
         /\ selectedVoice' = sel
         /\ UNCHANGED <<ctlVars, engVars, voices, store, catalog, settings>>
    ELSE /\ utterance < MaxStarts
         /\ Len(AfterStop.inflight) <= MaxInFlight
         /\ isReading' = AfterStop.isReading
         /\ isPaused' = AfterStop.isPaused
         /\ ui' = AfterStop.ui
         /\ currentText' = cleanText(text)
         /\ utterance' = utterance + 1
         /\ engQueue' = Append(AfterStop.queue,
                               [id |-> utterance + 1, text |-> cleanText(text),
                                lang |-> utteranceLang(sel, cleanText(text))])
         /\ engBegun' = AfterStop.begun
         /\ engPaused' = AfterStop.paused
         /\ inflight' = AfterStop.inflight
         /\ last' = Did(op, text, NoEvent,
                        AfterStop.calls \o <<"speak">>, <<>>)
         /\ page' = pg
         /\ selectedVoice' = sel
         /\ UNCHANGED <<engine, voices, store, catalog, settings>>

speakWith(op, text, pg) == speakAs(op, text, pg, selectedVoice)

speak(text) == speakWith("speak", text, page)

\* pause that leaves flag and buttons to the onpause callback
pauseDeferred ==
    IF synthSpeaking /\ ~engPaused
    THEN /\ Len(inflight) + Len(PauseEvents("pause")) <= MaxInFlight
         /\ engPaused' = TRUE
         /\ inflight' = inflight \o PauseEvents("pause")
         /\ last' = Did("pause", <<>>, NoEvent, <<"pause">>, <<>>)
         /\ UNCHANGED <<ctlVars, engQueue, engBegun, engine, voiceVars>>
    ELSE /\ last' = Did("pause", <<>>, NoEvent, <<>>, <<>>)
         /\ UNCHANGED <<ctlVars, engVars, voiceVars>>

pause ==
    IF synthSpeaking /\ ~engPaused
    THEN /\ Len(inflight) + Len(PauseEvents("pause")) <= MaxInFlight
         /\ engPaused' = TRUE
         /\ inflight' = inflight \o PauseEvents("pause")
         /\ isPaused' = TRUE
         /\ ui' = "paused"
         /\ last' = Did("pause", <<>>, NoEvent, <<"pause">>, <<>>)
         /\ UNCHANGED <<isReading, currentText, utterance, engQueue, engBegun,
                        engine, voiceVars>>
    ELSE /\ last' = Did("pause", <<>>, NoEvent, <<>>, <<>>)
         /\ UNCHANGED <<ctlVars, engVars, voiceVars>>

\* the body of resume(), run on behalf of operation op, leaving page pg
resumeWith(op, pg) ==
    IF engPaused
    THEN /\ Len(inflight) + Len(PauseEvents("resume")) <= MaxInFlight
         /\ engPaused' = FALSE
         /\ inflight' = inflight \o PauseEvents("resume")
         /\ isPaused' = FALSE
         /\ ui' = "playing"
         /\ last' = Did(op, <<>>, NoEvent, <<"resume">>, <<>>)
         /\ page' = pg
         /\ UNCHANGED <<isReading, currentText, utterance, engQueue, engBegun,
                        engine, voices, selectedVoice, store, catalog,
                        settings>>
    ELSE /\ last' = Did(op, <<>>, NoEvent, <<>>, <<>>)
         /\ page' = pg
         /\ UNCHANGED <<ctlVars, engVars, voices, selectedVoice, store, catalog,
                        settings>>

resume == resumeWith("resume", page)

stop ==
    /\ Len(AfterStop.inflight) <= MaxInFlight
    /\ engQueue' = AfterStop.queue
    /\ engBegun' = AfterStop.begun
    /\ engPaused' = AfterStop.paused
    /\ inflight' = AfterStop.inflight
    /\ isReading' = AfterStop.isReading
    /\ isPaused' = AfterStop.isPaused
    /\ ui' = AfterStop.ui
    /\ last' = Did("stop", <<>>, NoEvent, AfterStop.calls, <<>>)
    /\ UNCHANGED <<currentText, utterance, engine, voiceVars>>

\* page-level pause button / shortcut: only forwards while reading
pauseReading ==
    IF isReading /\ ~isPaused
    THEN /\ pause
    ELSE /\ last' = Did("pauseReading", <<>>, NoEvent, <<>>, <<>>)
         /\ UNCHANGED <<ctlVars, engVars, voiceVars>>

(***************************************************************************)
(* Utterance callbacks                                                     *)
(***************************************************************************)
\* classification that lost its first branch
ErrorMessageNoNetwork(err) ==
    IF err = "not-allowed" THEN "ErrNotAllowed"
    ELSE IF err = "language-not-supported" THEN "ErrLanguage"
    ELSE "ErrGeneric"

ErrorMessage(err) ==
    IF err = "network" THEN "ErrNetwork"
    ELSE IF err = "not-allowed" THEN "ErrNotAllowed"
    ELSE IF err = "language-not-supported" THEN "ErrLanguage"
    ELSE "ErrGeneric"

onstart(ev) ==
    /\ isReading' = TRUE
    /\ isPaused' = FALSE
    /\ ui' = "playing"
    /\ last' = Did("onstart", <<>>, ev, <<>>, <<>>)

\* onend that forgets to clear isReading
onendKeepsReading(ev) ==
    /\ isPaused' = FALSE
    /\ ui' = "stopped"
    /\ last' = Did("onend", <<>>, ev, <<>>, <<"Finished">>)
    /\ UNCHANGED isReading

onend(ev) ==
    /\ isReading' = FALSE
    /\ isPaused' = FALSE
    /\ ui' = "stopped"
    /\ last' = Did("onend", <<>>, ev, <<>>, <<"Finished">>)

onerror(ev) ==
    /\ isReading' = FALSE
    /\ isPaused' = FALSE
    /\ ui' = "stopped"
    /\ last' = Did("onerror", <<>>, ev, <<>>, <<ErrorMessage(ev.err)>>)

onpause(ev) ==
    /\ isPaused' = TRUE
    /\ ui' = "paused"
    /\ last' = Did("onpause", <<>>, ev, <<>>, <<>>)
    /\ UNCHANGED isReading

onresume(ev) ==
    /\ isPaused' = FALSE
    /\ ui' = "playing"
    /\ last' = Did("onresume", <<>>, ev, <<>>, <<>>)
    /\ UNCHANGED isReading

\* the browser dispatches the oldest fired event to its handler
Dispatch ==
    /\ inflight # <<>>
    /\ LET ev == Head(inflight) IN
         \/ ev.kind = "start" /\ onstart(ev)
         \/ ev.kind = "end" /\ onend(ev)
         \/ ev.kind = "error" /\ onerror(ev)
         \/ ev.kind = "pause" /\ onpause(ev)
         \/ ev.kind = "resume" /\ onresume(ev)
    /\ inflight' = Tail(inflight)
    /\ UNCHANGED <<currentText, utterance, engQueue, engBegun, engPaused,
                   engine, voiceVars>>

(***************************************************************************)
(* Engine steps                                                            *)
(***************************************************************************)
EngineBegin ==
    /\ engQueue # <<>> /\ ~engBegun /\ ~engPaused
    /\ Len(inflight) < MaxInFlight
    /\ engBegun' = TRUE
    /\ inflight' = Append(inflight, Event("start", engQueue[1].id, "none"))
    /\ UNCHANGED <<ctlVars, engQueue, engPaused, engine, last, voiceVars>>

EngineEnd ==
    /\ engQueue # <<>> /\ engBegun /\ ~engPaused
    /\ Len(inflight) < MaxInFlight
    /\ engBegun' = FALSE
    /\ engQueue' = Tail(engQueue)
    /\ inflight' = Append(inflight, Event("end", engQueue[1].id, "none"))
    /\ UNCHANGED <<ctlVars, engPaused, engine, last, voiceVars>>

EngineError ==
    /\ engQueue # <<>>
    /\ Len(inflight) < MaxInFlight
    /\ \E err \in ErrorKinds :
         inflight' = Append(inflight, Event("error", engQueue[1].id, err))
    /\ engBegun' = FALSE
    /\ engQueue' = Tail(engQueue)
    /\ UNCHANGED <<ctlVars, engPaused, engine, last, voiceVars>>

(***************************************************************************)
(* Playback specification                                                  *)
(***************************************************************************)
Init ==
    /\ isReading = FALSE
    /\ isPaused = FALSE
    /\ ui = "stopped"
    /\ currentText = <<>>
    /\ utterance = 0
    /\ engQueue = <<>>
    /\ engBegun = FALSE
    /\ engPaused = FALSE
    /\ engine \in EngineKinds
    /\ inflight = <<>>
    /\ last = Did("new", <<>>, NoEvent, <<>>, <<>>)
    /\ voices = <<>>
    /\ selectedVoice = NoVoice
    /\ store = EmptyStore
    /\ catalog = <<>>
    /\ settings = DefaultSettings
    /\ page = FreshPage

Speak == \E text \in Texts : speak(text)
Pause == pause
Resume == resume
Stop == stop
PauseReading == pauseReading

Next ==
    \/ Speak
    \/ Pause
    \/ Resume
    \/ Stop
    \/ PauseReading
    \/ Dispatch
    \/ EngineBegin
    \/ EngineEnd
    \/ EngineError

Spec == Init /\ [][Next]_vars

(***************************************************************************)
(* Playback while the engine's voice list stays empty: the constructor's   *)
(* timers and the voiceschanged handler keep calling initializeVoices       *)
(***************************************************************************)
\* initializeVoices when getVoices() returns []: it returns after storing it
refreshEmpty ==
    /\ catalog = <<>>
    /\ voices' = catalog
    /\ last' = [op |-> "initializeVoices", selectedBefore |-> selectedVoice]
    /\ UNCHANGED <<ctlVars, engVars, selectedVoice, store, catalog, settings,
                   page>>

RefreshNext ==
    \/ Next
    \/ refreshEmpty

RefreshSpec == Init /\ [][RefreshNext]_vars

(***************************************************************************)
(* Voice catalog                                                           *)
(***************************************************************************)
Voice(name, lang) == [name |-> name, lang |-> lang]

Heera    == Voice(<<"Microsoft", "Heera", "-", "Hindi", "(India)">>, <<"hi-IN">>)
Lekha    == Voice(<<"Lekha">>, <<"hi-IN">>)
Samantha == Voice(<<"Samantha">>, <<"en-US">>)
Amelie   == Voice(<<"Amelie">>, <<"fr-CA">>)

VoiceUniverse == {Heera, Lekha, Samantha, Amelie}

\* the voice lists getVoices() may return: no voice is listed twice
Catalogs ==
    {c \in UNION {[1..n -> VoiceUniverse] : n \in 0..MaxVoices} :
        \A i, j \in 1..Len(c) : c[i] = c[j] => i = j}

\* localStorage 'selectedVoiceIndex': <<>> when absent (getItem gives null),
\* else <<n>> for the stored decimal string of n
StoredIndexes == {<<>>} \cup {<<n>> : n \in 0..MaxVoices}

preferredVoices ==
    << <<"Microsoft", "Heera", "-", "Hindi", "(India)">>,
       <<"Google", "U+0939U+093FU+0928U+094DU+0926U+0940">>,
       <<"Hindi", "(India)">>,
       <<"hi-IN">>,
       <<"Microsoft", "Zira", "-", "English", "(United", "States)">>,
       <<"Google", "US", "English">>,
       <<"Microsoft", "David", "-", "English", "(United", "States)">>,
       <<"English", "(United", "States)">>,
       <<"en-US">> >>

\* String.prototype.includes
Includes(s, p) ==
    \E i \in 0..(Len(s) - Len(p)) : SubSeq(s, i + 1, i + Len(p)) = p

VoiceMatches(v, preferred) ==
    \/ Includes(v.name, preferred)
    \/ v.name = preferred
    \/ Includes(v.lang, preferred)
    \/ v.lang = preferred

\* Array.prototype.find: the first element that matches, NoVoice if none
RECURSIVE FindVoice(_, _)
FindVoice(vs, preferred) ==
    IF vs = <<>> THEN NoVoice
    ELSE IF VoiceMatches(Head(vs), preferred) THEN Head(vs)
         ELSE FindVoice(Tail(vs), preferred)

\* catalog order instead of preference order: the first voice that matches
\* any entry of the list
RECURSIVE FirstMatchingVoice(_, _)
FirstMatchingVoice(vs, prefs) ==
    IF vs = <<>> THEN NoVoice
    ELSE IF \E r \in 1..Len(prefs) : VoiceMatches(Head(vs), prefs[r])
         THEN Head(vs)
         ELSE FirstMatchingVoice(Tail(vs), prefs)

\* the for-of loop over preferredVoices with its break
RECURSIVE FirstPreferred(_, _)
FirstPreferred(vs, prefs) ==
    IF prefs = <<>> THEN NoVoice
    ELSE IF FindVoice(vs, Head(prefs)) # NoVoice
         THEN FindVoice(vs, Head(prefs))
         ELSE FirstPreferred(vs, Tail(prefs))

\* the index tested as a number: index 0 counts as missing
SavedIndexNonZero(vs, idx) == idx # <<>> /\ idx[1] > 0 /\ idx[1] < Len(vs)

\* this.voices[savedVoiceIndex] is an element
SavedIndexUsable(vs, idx) == idx # <<>> /\ idx[1] < Len(vs)

\* the selected voice initializeVoices leaves, given the one it finds
SelectVoice(sel, vs, idx) ==
    LET byPreference == IF sel = NoVoice THEN FirstPreferred(vs, preferredVoices)
                        ELSE sel
        withFallback == IF byPreference = NoVoice /\ Len(vs) > 0 THEN vs[1]
                        ELSE byPreference
    IN  IF SavedIndexUsable(vs, idx) THEN vs[idx[1] + 1] ELSE withFallback

\* the last catalog operation and the voice that was selected before it
VDid(op, sel) == [op |-> op, selectedBefore |-> sel]

initializeVoices ==
    /\ voices' = catalog
    /\ selectedVoice' = IF catalog = <<>> THEN selectedVoice
                        ELSE SelectVoice(selectedVoice, catalog,
                                         store.selectedVoiceIndex)
    /\ last' = VDid("initializeVoices", selectedVoice)
    /\ UNCHANGED <<ctlVars, engVars, store, catalog, settings, page>>

\* the engine's voice list changes (voices load, are installed or removed)
VoicesChange ==
    /\ \E c \in Catalogs : c # catalog /\ catalog' = c
    /\ UNCHANGED <<ctlVars, engVars, last, voices, selectedVoice, store,
                   settings, page>>

\* settings dialog, "save": voice option i, the sliders at r and v tenths
\* (a slider's value is the string of its number)
applyWith(i, r, v) ==
    /\ selectedVoice' = voices[i + 1]
    /\ settings' = [settings EXCEPT
                       !.rate = parseFloat(numberToString(r)),
                       !.volume = parseFloat(numberToString(v))]
    /\ store' = saveSettings(
                   [store EXCEPT !.selectedVoiceIndex = <<i>>,
                                 !.voiceRate = <<numberToString(r)>>,
                                 !.voiceVolume = <<numberToString(v)>>],
                   settings')
    /\ UNCHANGED <<ctlVars, engVars, voices, catalog, page>>

\* "save" with the sliders left where the dialog put them
applyVoiceSettings ==
    /\ voices # <<>>
    /\ \E i \in 0..(Len(voices) - 1) :
         applyWith(i, settings.rate, settings.volume)
    /\ last' = VDid("applyVoiceSettings", selectedVoice)

\* the page's one-second timer: the persisted index, if usable, is selected
loadVoiceSettings ==
    /\ selectedVoice' = IF SavedIndexUsable(voices, store.selectedVoiceIndex)
                        THEN voices[store.selectedVoiceIndex[1] + 1]
                        ELSE selectedVoice
    /\ last' = VDid("loadVoiceSettings", selectedVoice)
    /\ UNCHANGED <<ctlVars, engVars, voices, store, catalog, settings, page>>

\* page load: new VoiceReader(), whose constructor calls initializeVoices
Reload ==
    /\ voices' = catalog
    /\ selectedVoice' = IF catalog = <<>> THEN NoVoice
                        ELSE SelectVoice(NoVoice, catalog,
                                         store.selectedVoiceIndex)
    /\ settings' = loadSavedSettings(store)
    /\ page' = FreshPage
    /\ last' = VDid("new", NoVoice)
    /\ UNCHANGED <<ctlVars, engVars, store, catalog>>

VoiceInit ==
    /\ isReading = FALSE
    /\ isPaused = FALSE
    /\ ui = "stopped"
    /\ currentText = <<>>
    /\ utterance = 0
    /\ engQueue = <<>>
    /\ engBegun = FALSE
    /\ engPaused = FALSE
    /\ engine = [eagerSpeaking |-> FALSE, cancelResumes |-> FALSE]
    /\ inflight = <<>>
    /\ catalog \in Catalogs
    /\ store \in {[EmptyStore EXCEPT !.selectedVoiceIndex = i] :
                      i \in StoredIndexes}
    /\ settings = DefaultSettings
    /\ page = FreshPage
    /\ voices = catalog
    /\ selectedVoice = IF catalog = <<>> THEN NoVoice
                       ELSE SelectVoice(NoVoice, catalog,
                                        store.selectedVoiceIndex)
    /\ last = VDid("new", NoVoice)

VoiceNext ==
    \/ initializeVoices
    \/ VoicesChange
    \/ applyVoiceSettings
    \/ loadVoiceSettings
    \/ Reload

VoiceSpec == VoiceInit /\ [][VoiceNext]_vars

(***************************************************************************)
(* Preference specification: page loads over arbitrary stored items, with   *)
(* or without a speech engine, and the settings dialog                      *)
(***************************************************************************)
\* window.speechSynthesis is undefined
NoEngine == [eagerSpeaking |-> FALSE, cancelResumes |-> FALSE, absent |-> TRUE]

Chars3(a, b, c) == <<a, b, c>>

\* what a stored number item may hold: nothing, "", "abc", "1.5", "5"
StoredNumbers ==
    { <<>>, << <<>> >>, << Chars3("a", "b", "c") >>, << Chars3("1", ".", "5") >>,
      << <<"5">> >> }

PrefCatalogs == { <<>>, <<Lekha>>, <<Samantha, Lekha>> }

\* slider positions offered: both ends and one value between
SliderRates   == {3, 15, 20}
SliderVolumes == {0, 5, 10}

\* new VoiceReader(): without an engine this.synth.getVoices() throws
\* inside the constructor and the global voiceReader stays null
Constructed(st, cat, eng) ==
    IF eng = NoEngine
    THEN [threw |-> TRUE, voices |-> <<>>, selectedVoice |-> NoVoice,
          settings |-> DefaultSettings, reader |-> FALSE]
    ELSE [threw |-> FALSE, voices |-> cat,
          selectedVoice |-> IF cat = <<>> THEN NoVoice
                            ELSE SelectVoice(NoVoice, cat,
                                             st.selectedVoiceIndex),
          settings |-> loadSavedSettings(st), reader |-> TRUE]

\* what was in memory before the operation
Had == [settings |-> settings, voice |-> selectedVoice,
        sameCatalog |-> catalog = voices]

PDid(op, threw, after, had) ==
    [op |-> op, threw |-> threw, after |-> after, had |-> had]

pageLoad ==
    /\ voices' = Constructed(store, catalog, engine).voices
    /\ selectedVoice' = Constructed(store, catalog, engine).selectedVoice
    /\ settings' = Constructed(store, catalog, engine).settings
    /\ page' = [FreshPage EXCEPT
                   !.reader = Constructed(store, catalog, engine).reader]
    /\ last' = PDid("new", Constructed(store, catalog, engine).threw,
                    last.op, Had)
    /\ UNCHANGED <<ctlVars, engVars, store, catalog>>

applyChosen ==
    /\ page.reader
    /\ voices # <<>>
    /\ \E i \in 0..(Len(voices) - 1), r \in SliderRates, v \in SliderVolumes :
         applyWith(i, r, v)
    /\ last' = PDid("applyVoiceSettings", FALSE, last.op, Had)

voicesLoad ==
    /\ engine # NoEngine
    /\ \E c \in PrefCatalogs : c # catalog /\ catalog' = c
    /\ UNCHANGED <<ctlVars, engVars, last, voices, selectedVoice, store,
                   settings, page>>

refreshVoices ==
    /\ page.reader
    /\ voices' = catalog
    /\ selectedVoice' = IF catalog = <<>> THEN selectedVoice
                        ELSE SelectVoice(selectedVoice, catalog,
                                         store.selectedVoiceIndex)
    /\ last' = PDid("initializeVoices", FALSE, last.op, Had)
    /\ UNCHANGED <<ctlVars, engVars, store, catalog, settings, page>>

PrefInit ==
    /\ isReading = FALSE
    /\ isPaused = FALSE
    /\ ui = "stopped"
    /\ currentText = <<>>
    /\ utterance = 0
    /\ engQueue = <<>>
    /\ engBegun = FALSE
    /\ engPaused = FALSE
    /\ engine \in {[eagerSpeaking |-> FALSE, cancelResumes |-> FALSE], NoEngine}
    /\ inflight = <<>>
    /\ catalog \in (IF engine = NoEngine THEN {<<>>} ELSE PrefCatalogs)
    /\ store \in {[EmptyStore EXCEPT !.selectedVoiceIndex = i,
                                      !.voiceRate = r,
                                      !.voicePitch = p,
                                      !.voiceVolume = v] :
                      i \in {<<>>, <<1>>}, r \in StoredNumbers,
                      p \in StoredNumbers, v \in StoredNumbers}
    /\ voices = Constructed(store, catalog, engine).voices
    /\ selectedVoice = Constructed(store, catalog, engine).selectedVoice
    /\ settings = Constructed(store, catalog, engine).settings
    /\ page = [FreshPage EXCEPT
                  !.reader = Constructed(store, catalog, engine).reader]
    /\ last = PDid("new", Constructed(store, catalog, engine).threw, "none",
                   [settings |-> DefaultSettings, voice |-> NoVoice,
                    sameCatalog |-> TRUE])

PrefNext ==
    \/ pageLoad
    \/ applyChosen
    \/ voicesLoad
    \/ refreshVoices

PrefSpec == PrefInit /\ [][PrefNext]_vars

(***************************************************************************)
(* Sanitizer specification: cleanText applied to the text of the page       *)
(***************************************************************************)
Pieces ==
    { <<"a">>, <<" ">>, <<"\t">>, <<".">>, <<"<">>, <<">">>, <<"&">>, <<"@">>,
      <<" ", "@", " ">>, <<"U+0928">>,
      <<"&", "l", "t", ";">>, <<"&", "g", "t", ";">>,
      <<"&", "a", "m", "p", ";">>, <<"&", "n", "b", "s", "p", ";">> }

RECURSIVE Concat(_)
Concat(ps) == IF ps = <<>> THEN <<>> ELSE Head(ps) \o Concat(Tail(ps))

SanitizerInputs ==
    { Concat(ps) : ps \in UNION { [1..n -> Pieces] : n \in 0..MaxPieces } }

SanitizeInit ==
    /\ isReading = FALSE
    /\ isPaused = FALSE
    /\ ui = "stopped"
    /\ currentText = <<>>
    /\ utterance = 0
    /\ engQueue = <<>>
    /\ engBegun = FALSE
    /\ engPaused = FALSE
    /\ engine = [eagerSpeaking |-> FALSE, cancelResumes |-> FALSE]
    /\ inflight = <<>>
    /\ last = [op |-> "new", text |-> <<>>]
    /\ voices = <<>>
    /\ selectedVoice = NoVoice
    /\ store = EmptyStore
    /\ catalog = <<>>
    /\ settings = DefaultSettings
    /\ page \in {[FreshPage EXCEPT !.summary = t] : t \in SanitizerInputs}

\* const cleanedText = this.cleanText(text); this.currentText = cleanedText
sanitize ==
    /\ last.op = "new"
    /\ currentText' = cleanText(page.summary)
    /\ last' = [op |-> "cleanText", text |-> page.summary]
    /\ UNCHANGED <<isReading, isPaused, ui, utterance, engVars, voiceVars>>

SanitizeNext == sanitize

SanitizeSpec == SanitizeInit /\ [][SanitizeNext]_vars

(***************************************************************************)
(* Summary page: displaySummary, the auto-read timer and readSummary        *)
(***************************************************************************)
\* textContent of the rendered summary
SummaryTexts == { <<>>, <<"h", "i">>, <<"U+0928", "U+092E">> }

\* readSummary(), run on behalf of operation op, leaving page pg
readSummaryWith(op, pg) ==
    IF cleanText(page.summary) = <<>>
    THEN /\ last' = Did(op, page.summary, NoEvent, <<>>, <<"NoText">>)
         /\ page' = pg
         /\ UNCHANGED <<ctlVars, engVars, voices, selectedVoice, store, catalog,
                        settings>>
    ELSE IF isPaused /\ engPaused
         THEN resumeWith(op, pg)
         ELSE speakWith(op, cleanText(page.summary), pg)

readSummary == readSummaryWith("readSummary", page)

\* a new summary is rendered and the auto-read timer is set
displaySummary ==
    /\ page.autoTimers < MaxTimers
    /\ \E t \in SummaryTexts :
         page' = [page EXCEPT !.summary = t, !.autoTimers = @ + 1]
    /\ UNCHANGED <<ctlVars, engVars, last, voices, selectedVoice, store,
                   catalog, settings>>

toggleAutoRead ==
    /\ \E b \in {"true", "false"} :
         /\ store.autoReadSummary # <<b>>
         /\ store' = [store EXCEPT !.autoReadSummary = <<b>>]
    /\ UNCHANGED <<ctlVars, engVars, last, voices, selectedVoice, catalog,
                   settings, page>>

\* the timer set by displaySummary fires inside autoStartReading
autoStartReading ==
    /\ page.autoTimers > 0
    /\ IF store.autoReadSummary = <<"true">>
       THEN readSummaryWith("autoStartReading",
                            [page EXCEPT !.autoTimers = @ - 1])
       ELSE /\ last' = Did("autoStartReading", page.summary, NoEvent, <<>>,
                           <<>>)
            /\ page' = [page EXCEPT !.autoTimers = @ - 1]
            /\ UNCHANGED <<ctlVars, engVars, voices, selectedVoice, store,
                           catalog, settings>>

AutoInit ==
    /\ isReading = FALSE
    /\ isPaused = FALSE
    /\ ui = "stopped"
    /\ currentText = <<>>
    /\ utterance = 0
    /\ engQueue = <<>>
    /\ engBegun = FALSE
    /\ engPaused = FALSE
    /\ engine = [eagerSpeaking |-> FALSE, cancelResumes |-> FALSE]
    /\ inflight = <<>>
    /\ last = Did("new", <<>>, NoEvent, <<>>, <<>>)
    /\ voices = <<>>
    /\ selectedVoice = NoVoice
    /\ store = EmptyStore
    /\ catalog = <<>>
    /\ settings = DefaultSettings
    /\ page = FreshPage

AutoNext ==
    \/ displaySummary
    \/ toggleAutoRead
    \/ autoStartReading
    \/ readSummary
    \/ Pause
    \/ Stop
    \/ PauseReading
    \/ Dispatch
    \/ EngineBegin
    \/ EngineEnd
    \/ EngineError

AutoSpec == AutoInit /\ [][AutoNext]_vars

(***************************************************************************)
(* Chapters: readAllChapters joins the chapters into one text for speak     *)
(***************************************************************************)
\* the words of the announcements
ChapterWord == <<"U+091A U+0948 U+092A U+094D U+091F U+0930">>
NextWord    == <<"U+0905 U+0917 U+0932 U+093E">>
Danda       == <<"U+0964">>

\* textContent of a chapter element
ChapterTexts == { <<>>, <<"h", "i">>, <<"U+0928">> }

\* what one chapter adds to allText
chapterPart(text, index) ==
    ChapterWord \o <<" ">> \o IntStr(index + 1) \o Danda \o <<" ">> \o text
        \o Danda \o <<" ">> \o NextWord \o <<" ">> \o ChapterWord \o Danda
        \o <<" ">>

\* only the chapter at index is taken
allTextOneChapter(chs, index) ==
    IF index < Len(chs) /\ cleanText(chs[index + 1]) # <<>>
    THEN chapterPart(cleanText(chs[index + 1]), index)
    ELSE <<>>

\* chapterElements.forEach from index on: chapters without text are skipped
RECURSIVE allTextFrom(_, _)
allTextFrom(chs, index) ==
    IF index >= Len(chs) THEN <<>>
    ELSE (IF cleanText(chs[index + 1]) # <<>>
          THEN chapterPart(cleanText(chs[index + 1]), index)
          ELSE <<>>) \o allTextFrom(chs, index + 1)

readAllChapters ==
    IF page.chapters = <<>>
    THEN /\ last' = Did("readAllChapters", <<>>, NoEvent, <<>>,
                        <<"NoChapters">>)
         /\ UNCHANGED <<ctlVars, engVars, voiceVars>>
    ELSE IF allTextFrom(page.chapters, 0) = <<>>
         THEN /\ last' = Did("readAllChapters", <<>>, NoEvent, <<>>,
                             <<"NoText">>)
              /\ UNCHANGED <<ctlVars, engVars, voiceVars>>
         ELSE speakWith("readAllChapters", allTextFrom(page.chapters, 0),
                        page)

ChapterInit ==
    /\ isReading = FALSE
    /\ isPaused = FALSE
    /\ ui = "stopped"
    /\ currentText = <<>>
    /\ utterance = 0
    /\ engQueue = <<>>
    /\ engBegun = FALSE
    /\ engPaused = FALSE
    /\ engine \in EngineKinds
    /\ inflight = <<>>
    /\ last = Did("new", <<>>, NoEvent, <<>>, <<>>)
    /\ voices = <<>>
    /\ selectedVoice = NoVoice
    /\ store = EmptyStore
    /\ catalog = <<>>
    /\ settings = DefaultSettings
    /\ page \in {[FreshPage EXCEPT !.chapters = cs] :
                    cs \in UNION {[1..n -> ChapterTexts] : n \in 0..MaxChapters}}

ChapterNext ==
    \/ readAllChapters
    \/ Pause
    \/ Resume
    \/ Stop
    \/ Dispatch
    \/ EngineBegin
    \/ EngineEnd

ChapterSpec == ChapterInit /\ [][ChapterNext]_vars

(***************************************************************************)
(* Voice list retries while the engine lists no voice: the constructor's    *)
(* two timers and showVoiceSettings, which re-arms its own timer            *)
(***************************************************************************)
\* the count of getVoices() calls goes round after MaxAttempts
Counted(n) == (n % MaxAttempts) + 1

\* this.initializeVoices() called from a handler that leaves page pg
enumerateVoices(op, pg) ==
    /\ voices' = catalog
    /\ selectedVoice' = IF catalog = <<>> THEN selectedVoice
                        ELSE SelectVoice(selectedVoice, catalog,
                                         store.selectedVoiceIndex)
    /\ last' = VDid(op, selectedVoice)
    /\ page' = [pg EXCEPT !.enumerations = Counted(@)]
    /\ UNCHANGED <<ctlVars, engVars, store, catalog, settings>>

\* one of the constructor's setTimeout(() => this.initializeVoices(), ...)
initTimer ==
    /\ page.initTimers > 0
    /\ enumerateVoices("initializeVoices",
                       [page EXCEPT !.initTimers = @ - 1])

\* showVoiceSettings() run from a page pg: without voices it refreshes and
\* sets a timer that runs it again, with voices it opens the dialog
showVoiceSettingsFrom(pg) ==
    IF voices = <<>>
    THEN enumerateVoices("showVoiceSettings",
                         [pg EXCEPT !.settingsTimers = @ + 1])
    ELSE /\ last' = VDid("showVoiceSettings", selectedVoice)
         /\ page' = pg
         /\ UNCHANGED <<ctlVars, engVars, voices, selectedVoice, store,
                        catalog, settings>>

\* the settings button
showVoiceSettings ==
    /\ page.settingsTimers < MaxTimers
    /\ showVoiceSettingsFrom(page)

\* setTimeout(() => showVoiceSettings(), 2000) fires
settingsTimer ==
    /\ page.settingsTimers > 0
    /\ showVoiceSettingsFrom([page EXCEPT !.settingsTimers = @ - 1])

SettingsInit ==
    /\ isReading = FALSE
    /\ isPaused = FALSE
    /\ ui = "stopped"
    /\ currentText = <<>>
    /\ utterance = 0
    /\ engQueue = <<>>
    /\ engBegun = FALSE
    /\ engPaused = FALSE
    /\ engine \in EngineKinds
    /\ inflight = <<>>
    /\ last = VDid("new", NoVoice)
    /\ voices = <<>>
    /\ selectedVoice = NoVoice
    /\ store \in {[EmptyStore EXCEPT !.selectedVoiceIndex = i] :
                     i \in StoredIndexes}
    /\ catalog = <<>>
    /\ settings = DefaultSettings
    /\ page = FreshPage

SettingsNext ==
    \/ initTimer
    \/ showVoiceSettings
    \/ settingsTimer

\* every timer that is set fires
SettingsSpec ==
    /\ SettingsInit
    /\ [][SettingsNext]_vars
    /\ WF_vars(initTimer)
    /\ WF_vars(settingsTimer)

(***************************************************************************)
(* The settings dialog's test button and its restore timers                 *)
(***************************************************************************)
\* the Hindi test sentence: isHindiText of the probe word always holds
TestText ==
    <<"U+0928 U+092E U+0938 U+094D U+0924 U+0947", "!", " ", "U+092F U+0939",
      " ", "U+090F U+0915", " ", "U+091F U+0947 U+0938 U+094D U+091F", " ",
      "U+0939 U+0948", "U+0964", " ", "U+0906 U+092A U+0915 U+0940", " ",
      "U+0906 U+0935 U+093E U+091C U+093C", " ",
      "U+0915 U+0948 U+0938 U+0940", " ", "U+0932 U+0917", " ",
      "U+0930 U+0939 U+0940", " ", "U+0939 U+0948", "?">>

\* test button with voice option i chosen: the voice is set, the sentence is
\* spoken, and a timer is set that puts back the voice found selected
testVoice ==
    /\ Len(page.restoreTimers) < MaxTimers
    /\ \E i \in 0..(Len(voices) - 1) :
         speakAs("testVoice", TestText,
                 [page EXCEPT !.restoreTimers = Append(@, selectedVoice)],
                 voices[i + 1])

\* setTimeout(() => { voiceReader.selectedVoice = originalVoice }, 5000)
restoreVoice ==
    /\ page.restoreTimers # <<>>
    /\ selectedVoice' = Head(page.restoreTimers)
    /\ page' = [page EXCEPT !.restoreTimers = Tail(@)]
    /\ last' = VDid("restoreVoice", selectedVoice)
    /\ UNCHANGED <<ctlVars, engVars, voices, store, catalog, settings>>

TestCatalogs == { <<Samantha, Lekha>>, <<Heera, Samantha>> }

TestInit ==
    /\ isReading = FALSE
    /\ isPaused = FALSE
    /\ ui = "stopped"
    /\ currentText = <<>>
    /\ utterance = 0
    /\ engQueue = <<>>
    /\ engBegun = FALSE
    /\ engPaused = FALSE
    /\ engine = [eagerSpeaking |-> FALSE, cancelResumes |-> FALSE]
    /\ inflight = <<>>
    /\ last = VDid("new", NoVoice)
    /\ catalog \in TestCatalogs
    /\ voices = catalog
    /\ store = EmptyStore
    /\ selectedVoice = SelectVoice(NoVoice, catalog, store.selectedVoiceIndex)
    /\ settings = DefaultSettings
    /\ page = FreshPage

TestNext ==
    \/ testVoice
    \/ restoreVoice
    \/ applyVoiceSettings
    \/ Dispatch
    \/ EngineBegin
    \/ EngineEnd

TestSpec == TestInit /\ [][TestNext]_vars

(***************************************************************************)
(* Playback specification with the engine's progress assumed: every         *)
(* utterance the engine holds eventually gets its end or error event, and   *)
(* every fired event is eventually dispatched.                              *)
(***************************************************************************)
LiveSpec ==
    /\ Init
    /\ [][Next]_vars
    /\ WF_vars(Dispatch)
    /\ SF_vars(EngineEnd \/ EngineError)

(***************************************************************************)
(* Properties                                                              *)
(***************************************************************************)
Idle == ~isReading /\ ~isPaused

FlagsUnchanged ==
    /\ isReading = last.pre.isReading
    /\ isPaused = last.pre.isPaused
    /\ ui = last.pre.ui

\* C1: the engine never holds more than one utterance submitted by the
\* controller: an earlier session is cancelled before the next is submitted.
C1_AtMostOneLiveUtterance == Len(engQueue) <= 1

\* C2: speak with a text whose sanitized form is empty submits nothing to
\* the engine, reports "nothing to read" and leaves the controller as it was.
C2_EmptySanitizedTextRejected ==
    (last.op = "speak" /\ cleanText(last.text) = <<>>)
        => /\ last.calls = <<>>
           /\ last.notes = <<"NoText">>
           /\ FlagsUnchanged

\* C3: after stop() the controller is Idle with the buttons in the stopped
\* state, and the engine holds no utterance of the controller.
C3_StopLeavesIdleAndNothingLive ==
    last.op = "stop" => (Idle /\ ui = "stopped" /\ engQueue = <<>>)

C5_NoOpOutsidePrecondition ==
    /\ (last.op = "pause" /\ ~last.pre.isReading /\ ~last.pre.isPaused)
           => (last.calls = <<>> /\ FlagsUnchanged)
    /\ (last.op = "resume" /\ last.pre.isReading /\ ~last.pre.isPaused)
           => (last.calls = <<>> /\ FlagsUnchanged)

\* C6: an error callback reaching a Speaking or Paused controller leaves it
\* Idle with the buttons stopped and raises exactly one message: the network,
\* the permission or the language message for these three kinds, the generic
\* message for every other kind.
C6_ErrorClassified ==
    (last.op = "onerror" /\ (last.pre.isReading \/ last.pre.isPaused))
        => /\ Idle /\ ui = "stopped"
           /\ Len(last.notes) = 1
           /\ last.ev.err = "network" <=> last.notes[1] = "ErrNetwork"
           /\ last.ev.err = "not-allowed" <=> last.notes[1] = "ErrNotAllowed"
           /\ last.ev.err = "language-not-supported"
                  <=> last.notes[1] = "ErrLanguage"
           /\ last.ev.err \notin {"network", "not-allowed",
                                   "language-not-supported"}
                  <=> last.notes[1] = "ErrGeneric"

\* a network error has reached a controller that was Speaking
C6_Witness ==
    /\ last.op = "onerror" /\ last.ev.err = "network"
    /\ last.pre.isReading /\ ~last.pre.isPaused
    /\ last.notes = <<"ErrNetwork">> /\ Idle

C8_EmptyStartLeavesSessionAlone ==
    (/\ last.op = "speak"
     /\ cleanText(last.text) = <<>>
     /\ (last.pre.isReading \/ last.pre.isPaused))
        => (last.calls = <<>> /\ FlagsUnchanged)

\* the ranks of the preference entries that match some voice of vs
MatchingRanks(vs) ==
    {r \in 1..Len(preferredVoices) :
        \E i \in 1..Len(vs) : VoiceMatches(vs[i], preferredVoices[r])}

\* the first voice of vs matching the earliest-ranked matching entry, vs[1]
\* when no entry matches
HeuristicChoice(vs) ==
    IF MatchingRanks(vs) = {} THEN vs[1]
    ELSE LET r == CHOOSE x \in MatchingRanks(vs) :
                      \A y \in MatchingRanks(vs) : x <= y
             i == CHOOSE k \in 1..Len(vs) :
                      /\ VoiceMatches(vs[k], preferredVoices[r])
                      /\ \A m \in 1..(k - 1) :
                            ~VoiceMatches(vs[m], preferredVoices[r])
         IN  vs[i]

NoUsableIndex ==
    \/ store.selectedVoiceIndex = <<>>
    \/ store.selectedVoiceIndex[1] >= Len(voices)

HasLang(vs, tag) == \E i \in 1..Len(vs) : vs[i].lang = <<tag>>

\* C9: a refresh that sees a non-empty catalog with no voice selected before
\* and no usable persisted index selects by preference order, not catalog
\* order (a catalog with an hi-IN and an en-US voice gives a Hindi voice),
\* and selects the first voice when no preference entry matches.
C9_PreferenceOrderDecides ==
    (/\ last.op \in {"initializeVoices", "new"}
     /\ voices # <<>>
     /\ last.selectedBefore = NoVoice
     /\ NoUsableIndex)
        => /\ selectedVoice = HeuristicChoice(voices)
           /\ (HasLang(voices, "hi-IN") /\ HasLang(voices, "en-US"))
                  => selectedVoice.lang = <<"hi-IN">>
           /\ MatchingRanks(voices) = {} => selectedVoice = voices[1]

\* the en-US voice comes first in the catalog and the Hindi voice is selected
C9_Witness ==
    /\ last.op = "initializeVoices"
    /\ last.selectedBefore = NoVoice
    /\ store.selectedVoiceIndex = <<>>
    /\ voices = <<Samantha, Lekha>>
    /\ selectedVoice = Lekha

\* C10: a refresh that finds the persisted index out of range for a
\* non-empty catalog leaves the preference choice from that catalog selected
\* (its first voice when no preference matches).
C10_OutOfRangeIndexFallsBack ==
    (/\ last.op \in {"initializeVoices", "new"}
     /\ voices # <<>>
     /\ store.selectedVoiceIndex # <<>>
     /\ store.selectedVoiceIndex[1] >= Len(voices))
        => selectedVoice = HeuristicChoice(voices)

\* C11: after a refresh that sees a non-empty catalog, a persisted index
\* that is an index of that catalog decides: the selected voice is the
\* catalog entry at that index.
C11_PersistedIndexWins ==
    (/\ last.op \in {"initializeVoices", "new", "loadVoiceSettings"}
     /\ voices # <<>>
     /\ store.selectedVoiceIndex # <<>>
     /\ store.selectedVoiceIndex[1] < Len(voices))
        => selectedVoice = voices[store.selectedVoiceIndex[1] + 1]

\* index 0 is persisted, a Hindi voice was selected before and is what the
\* preference list would pick, and the refresh selects the voice at index 0
C11_Witness ==
    /\ last.op = "initializeVoices"
    /\ last.selectedBefore = Lekha
    /\ store.selectedVoiceIndex = <<0>>
    /\ voices = <<Samantha, Lekha>>
    /\ selectedVoice = Samantha

\* C12: without a speech engine no controller operation raises.
C12_NoEngineNeverRaises == engine = NoEngine => ~last.threw

ValidNumber(item) ==
    /\ item # <<>>
    /\ \E i \in 1..Len(item[1]) : IsDigit(item[1][i])
    /\ \A i \in 1..Len(item[1]) : IsDigit(item[1][i]) \/ item[1][i] = "."

FieldLoaded(value, item, default) ==
    IF ValidNumber(item) THEN value = parseFloat(item[1]) ELSE value = default

\* C13: construction over any stored rate, pitch and volume does not fail,
\* and each field is the stored value when that is a number and the default
\* (0.8, 1.0, 0.9) when it is missing or not a number.
C13_DefaultsForUnusableItems ==
    (last.op = "new" /\ engine # NoEngine)
        => /\ ~last.threw
           /\ FieldLoaded(settings.rate, store.voiceRate, 8)
           /\ FieldLoaded(settings.pitch, store.voicePitch, 10)
           /\ FieldLoaded(settings.volume, store.voiceVolume, 9)

\* C19: the settings in memory always have rate in [0.3, 2.0], pitch in
\* [0, 2] and volume in [0, 1].
C19_SettingsInRange ==
    page.reader
        => /\ settings.rate \in 3..20
           /\ settings.pitch \in 0..20
           /\ settings.volume \in 0..10

\* C20: a controller constructed right after applyVoiceSettings, over the
\* same store and the catalog the dialog showed, has the rate and volume
\* that were applied, the pitch that was in memory and the voice chosen.
C20_AppliedSettingsSurviveReload ==
    (/\ last.op = "new"
     /\ last.after = "applyVoiceSettings"
     /\ last.had.sameCatalog)
        => /\ settings = last.had.settings
           /\ selectedVoice = last.had.voice

\* rate 2.0, volume 0 and the second voice were applied and are back
C20_Witness ==
    /\ last.op = "new"
    /\ last.after = "applyVoiceSettings"
    /\ last.had.sameCatalog
    /\ last.had.settings.rate = 20 /\ last.had.settings.volume = 0
    /\ last.had.voice = Lekha /\ voices = <<Samantha, Lekha>>
    /\ settings.rate = 20 /\ settings.volume = 0
    /\ selectedVoice = Lekha
    /\ store.selectedVoiceIndex = <<1>>

HasDevanagari(text) == \E i \in 1..Len(text) : text[i] \in Devanagari

ScriptLang(text) == IF HasDevanagari(text) THEN <<"hi-IN">> ELSE <<"en-US">>

\* C14: while the engine lists no voice, however often the list is
\* refreshed, no voice is selected, and a start whose sanitized text is not
\* empty submits an utterance of that text tagged hi-IN when the text has a
\* Devanagari character and en-US otherwise.
C14_NoVoicesStillSpeaks ==
    /\ [](/\ selectedVoice = NoVoice
          /\ voices = <<>>
          /\ \A i \in 1..Len(engQueue) :
                engQueue[i].lang = ScriptLang(engQueue[i].text))
    /\ [][(Speak /\ cleanText(last'.text) # <<>>)
            => /\ engQueue' # <<>>
               /\ engQueue'[Len(engQueue')].text = cleanText(last'.text)
               /\ engQueue'[Len(engQueue')].lang
                    = ScriptLang(cleanText(last'.text))]_vars

\* a second start, of Devanagari text, is submitted as hi-IN
C14_Witness ==
    /\ last.op = "speak"
    /\ utterance = 2
    /\ selectedVoice = NoVoice
    /\ engQueue # <<>>
    /\ engQueue[Len(engQueue)].text = <<"U+0928", "U+092E">>
    /\ engQueue[Len(engQueue)].lang = <<"hi-IN">>

Allowlist == WordChars \cup Devanagari \cup Punctuation \cup {" "}

\* C15: the sanitizer's output has no "<", no ">" and no character outside
\* word characters, Devanagari, the punctuation set and space.
C15_OutputWithinAllowlist ==
    last.op = "cleanText"
        => \A i \in 1..Len(currentText) :
              /\ currentText[i] \notin {"<", ">"}
              /\ currentText[i] \in Allowlist

\* an escaped "<" and a "@" went in, and the letter between them came out
C15_Witness ==
    /\ last.op = "cleanText"
    /\ last.text = <<"&", "l", "t", ";", "a", "@">>
    /\ currentText = <<"a">>

\* C16: the sanitizer's output neither starts nor ends with whitespace and
\* has no two whitespace characters in a row.
C16_OutputWhitespaceNormalised ==
    last.op = "cleanText"
        => /\ currentText # <<>>
              => /\ currentText[1] \notin WhiteSpace
                 /\ currentText[Len(currentText)] \notin WhiteSpace
           /\ \A i \in 1..(Len(currentText) - 1) :
                 ~(currentText[i] \in WhiteSpace
                   /\ currentText[i + 1] \in WhiteSpace)

Called(name) == \E i \in 1..Len(last'.calls) : last'.calls[i] = name

\* C17: when the auto-read timer of a rendered, speakable summary fires,
\* speak is called with that summary exactly when the stored auto-read
\* preference is "true", whatever the controller was doing.
C17_AutoReadStartsNewSummary ==
    [][(autoStartReading /\ cleanText(page.summary) # <<>>)
         => IF store.autoReadSummary = <<"true">>
            THEN /\ Called("speak")
                 /\ currentText' = cleanText(page.summary)
            ELSE ~Called("speak")]_vars

\* the chapters that have text, in page order, each between its announcements
Narration ==
    Concat([i \in 1..Len(page.chapters) |->
              IF cleanText(page.chapters[i]) = <<>> THEN <<>>
              ELSE ChapterWord \o <<" ">> \o IntStr(i) \o Danda \o <<" ">>
                     \o cleanText(page.chapters[i]) \o Danda \o <<" ">>
                     \o NextWord \o <<" ">> \o ChapterWord \o Danda
                     \o <<" ">>])

SpeakCalls ==
    Cardinality({i \in 1..Len(last'.calls) : last'.calls[i] = "speak"})

SameControl == isReading' = isReading /\ isPaused' = isPaused /\ ui' = ui

\* C22: a pause, resume or stop that directly follows the same operation
\* makes no engine call and changes neither flags nor buttons, and each of
\* them does nothing when the engine does not report the state it tests.
C22_RepeatedCallIsNoOp ==
    /\ [][((Pause /\ last.op = "pause") \/ (Resume /\ last.op = "resume")
            \/ (Stop /\ last.op = "stop"))
           => (last.calls # <<>> => last'.calls = <<>> /\ SameControl)]_vars
    /\ [][(Pause /\ ~(synthSpeaking /\ ~engPaused))
           => last'.calls = <<>> /\ SameControl]_vars
    /\ [][(Resume /\ ~engPaused) => last'.calls = <<>> /\ SameControl]_vars
    /\ [][(Stop /\ ~stopActs) => last'.calls = <<>> /\ SameControl]_vars

\* C23: right after speak has submitted an utterance, before any callback
\* has run, the controller is reading and not paused.
C23_SpeakingRightAfterStart ==
    (last.op = "speak" /\ last.calls # <<>>
     /\ last.calls[Len(last.calls)] = "speak")
        => isReading /\ ~isPaused

\* an event of an utterance that a later speak replaced or that cancel()
\* removed
Late(ev) == ev.id < utterance \/ ev.err \in {"interrupted", "canceled"}

\* C25: the callback of an utterance that was replaced by a later speak or
\* removed by stop changes neither flags nor buttons and notifies nobody.
C25_LateCallbacksInert ==
    [][(Dispatch /\ Late(Head(inflight)))
         => SameControl /\ last'.notes = <<>>]_vars

\* C26: the buttons show the controller state: paused exactly when isPaused,
\* stopped exactly when neither flag is set, playing exactly when reading
\* and not paused.
C26_ButtonsShowControllerState ==
    /\ ui = "paused" <=> isPaused
    /\ ui = "stopped" <=> (~isReading /\ ~isPaused)
    /\ ui = "playing" <=> (isReading /\ ~isPaused)

\* C28: isPaused is never set while isReading is not.
C28_NeverPausedWithoutReading == ~(~isReading /\ isPaused)

\* C29: on an engine whose cancel() leaves the paused state, a speak that
\* follows a stop leaves the engine not paused, so the new utterance can
\* begin without resume().
C29_StartAfterStopCanBegin ==
    [][(Speak /\ last.op = "stop" /\ ~engine.cancelResumes
        /\ last'.calls # <<>> /\ last'.calls[Len(last'.calls)] = "speak")
         => ~engPaused']_vars

\* C24: after a refresh the selected voice is unset or is one of the voices
\* the refresh has just read from the engine.
C24_SelectedVoiceIsListed ==
    last.op = "initializeVoices"
        => \/ selectedVoice = NoVoice
           \/ \E i \in 1..Len(voices) : voices[i] = selectedVoice

\* C30: readSummary with the controller paused and the engine paused calls
\* resume and submits nothing; in every other state, with a summary that
\* has text, it submits the summary text and that utterance is the only one
\* the engine then holds.
C30_PlayResumesOrRestarts ==
    [][readSummary
         => IF isPaused /\ engPaused
            THEN /\ last'.calls = <<"resume">>
                 /\ utterance' = utterance
                 /\ engQueue' = engQueue
            ELSE cleanText(page.summary) # <<>>
                   => /\ utterance' = utterance + 1
                      /\ Len(engQueue') = 1
                      /\ engQueue'[1].id = utterance'
                      /\ engQueue'[1].text = cleanText(page.summary)]_vars

\* C21: while the engine lists no voice, reading the voice list stops after
\* finitely many attempts: from some point on no timer that would read it
\* again is pending.
C21_VoiceListRetriesEnd ==
    <>[](page.initTimers = 0 /\ page.settingsTimers = 0)

\* the voice the user settled on: the one saved last, else the one selected
\* when the page was loaded
SettledVoice ==
    IF store.selectedVoiceIndex # <<>>
    THEN voices[store.selectedVoiceIndex[1] + 1]
    ELSE SelectVoice(NoVoice, catalog, <<>>)

\* C27: when no restore timer of testVoice is pending, the selected voice is
\* the one saved by the last applyVoiceSettings, or the one selected before
\* the first test when nothing was saved.
C27_RestoreLeavesSettledVoice ==
    page.restoreTimers = <<>> => selectedVoice = SettledVoice

=============================================================================
